---- MODULE Spec2Model ----
(***************************************************************************)
(* Model of the xupu font-deobfuscation scripts:                           *)
(*   solve_font.py          render_glyph, mse, main (the mapping builder)  *)
(*   decrypt_content.py     the mapping-table reader and the substitution  *)
(*   scripts/auto_importer  main (the rank-page import loop)               *)
(*                                                                         *)
(* A Python str is a sequence of one-character tokens.  ASCII characters   *)
(* are themselves ("0", "x", ":"); a non-ASCII character is named by its   *)
(* code point ("U4E2D" is chr(0x4E2D)).  A float is an exact fraction      *)
(* [num, den]; float("inf") is 1/0.                                        *)
(***************************************************************************)
EXTENDS Integers, Sequences, FiniteSets, TLC

VARIABLES
    \* ---- solve_font.mse, applied to a pair of bitmaps
    imageA, imageB, err,
    \* ---- solve_font.main: position, locals, standard output
    sf_pc, selected_cmap, num_faces, face_ref, pua_codes, ref_bitmaps, count,
    target_bmp, best_char, min_error, mapping, output,
    \* ---- solve_font.main: what happened so far (history)
    no_face, absent_refs, absent_codes, matched_codes, solved,
    \* ---- decrypt_content.decrypt_content: position, the two files read,
    \* locals, the file written, the exception that left the function
    dc_pc, map_file, html, dc_mapping, data_defined, data, content,
    decrypted_text, written, raised,
    \* ---- auto_importer.main: position, locals, and what happened so far:
    \* the answer of get_existing_projects, the uploads attempted, the
    \* names skipped
    im_pc, existing_projects, current_offset, max_books, processed_count,
    books, book_i, fetched_projects, upload_log, skipped

mseVars == <<imageA, imageB, err>>
solveVars == <<sf_pc, selected_cmap, num_faces, face_ref, pua_codes,
               ref_bitmaps, count, target_bmp, best_char, min_error, mapping,
               output, no_face, absent_refs, absent_codes, matched_codes,
               solved>>
decVars == <<dc_pc, map_file, html, dc_mapping, data_defined, data, content,
             decrypted_text, written, raised>>
impVars == <<im_pc, existing_projects, current_offset, max_books,
             processed_count, books, book_i, fetched_projects, upload_log,
             skipped>>
notSolveVars == <<mseVars, decVars, impVars>>
notMseVars == <<solveVars, decVars, impVars>>
notDecVars == <<mseVars, solveVars, impVars>>
notImpVars == <<mseVars, solveVars, decVars>>
vars == <<mseVars, solveVars, decVars, impVars>>

(***************************************************************************)
(* Bounds of the model.                                                    *)
(***************************************************************************)
\* largest bitmap (rows, width) the metric is applied to on its own
MseMaxH == 2
MseMaxW == 3
\* entries of font_map.txt
MaxCodes == 2
\* lines of decryption_map_final.txt
MaxLines == 2
\* books in one rank page
MaxPage == 2
\* --count
MaxCount == 2

(***************************************************************************)
(* Generic helpers.                                                        *)
(***************************************************************************)
Max2(a, b) == IF a >= b THEN a ELSE b

RECURSIVE SumTo(_, _)
\* f[1] + ... + f[n]
SumTo(f, n) == IF n = 0 THEN 0 ELSE f[n] + SumTo(f, n - 1)

\* Floats as exact fractions; Inf is float("inf").
Inf == [num |-> 1, den |-> 0]
Less(a, b) == a.num * b.den < b.num * a.den
SameValue(a, b) == a.num * b.den = b.num * a.den
\* A float variable that holds no value yet.
NoFloat == [num |-> 0, den |-> 0]

\* Sequences of length at most n, without repetition, over the set S.
DistinctSeqs(S, n) ==
    {s \in UNION {[1..k -> S] : k \in 0..n} :
        \A i, j \in 1..Len(s) : i # j => s[i] # s[j]}

\* An insertion-ordered dict is a sequence of [key, val] entries.
DictKeys(d) == {d[i].key : i \in 1..Len(d)}
DictGet(d, k) == (CHOOSE e \in {d[i] : i \in 1..Len(d)} : e.key = k).val
\* d[k] = v
DictSet(d, k, v) ==
    IF k \in DictKeys(d)
    THEN [i \in 1..Len(d) |-> IF d[i].key = k THEN [key |-> k, val |-> v] ELSE d[i]]
    ELSE Append(d, [key |-> k, val |-> v])

(***************************************************************************)
(* Python str operations, on sequences of one-character tokens.            *)
(***************************************************************************)
HexLower == <<"0", "1", "2", "3", "4", "5", "6", "7", "8", "9",
              "a", "b", "c", "d", "e", "f">>
HexUpper == <<"0", "1", "2", "3", "4", "5", "6", "7", "8", "9",
              "A", "B", "C", "D", "E", "F">>
IsHexDigit(t) == \E i \in 1..16 : HexLower[i] = t \/ HexUpper[i] = t
HexValue(t) == (CHOOSE i \in 1..16 : HexLower[i] = t \/ HexUpper[i] = t) - 1

RECURSIVE HexDigitsOf(_)
HexDigitsOf(n) ==
    IF n < 16 THEN <<HexLower[n + 1]>>
    ELSE HexDigitsOf(n \div 16) \o <<HexLower[(n % 16) + 1]>>
\* hex(n): "0x" and the lowercase digits, no padding; "-0x.." below zero
Hex(n) ==
    IF n < 0 THEN <<"-", "0", "x">> \o HexDigitsOf(-n)
    ELSE <<"0", "x">> \o HexDigitsOf(n)

RECURSIVE DecDigitsOf(_)
DecDigitsOf(n) ==
    IF n < 10 THEN <<HexLower[n + 1]>>
    ELSE DecDigitsOf(n \div 10) \o <<HexLower[(n % 10) + 1]>>
\* str(n) of an int, as an f-string prints it
Dec(n) == IF n < 0 THEN <<"-">> \o DecDigitsOf(-n) ELSE DecDigitsOf(n)

\* s.startswith(p)
StartsWith(s, p) ==
    /\ Len(s) >= Len(p)
    /\ \A j \in 1..Len(p) : s[j] = p[j]

\* sub in s
Contains(s, sub) ==
    \/ Len(sub) = 0
    \/ \E i \in 1..(Len(s) - Len(sub) + 1) :
          /\ s[i] = sub[1]
          /\ \A j \in 2..Len(sub) : s[i + j - 1] = sub[j]

IsSpace(t) == t \in {" ", "\t", "\n", "\r", "U3000"}
RECURSIVE LStrip(_)
LStrip(s) == IF s = <<>> \/ ~IsSpace(s[1]) THEN s ELSE LStrip(Tail(s))
RECURSIVE RStrip(_)
RStrip(s) ==
    IF s = <<>> \/ ~IsSpace(s[Len(s)]) THEN s
    ELSE RStrip(SubSeq(s, 1, Len(s) - 1))
\* s.strip()
Strip(s) == RStrip(LStrip(s))

\* s.split(sep) for a one-character separator: the texts between the
\* separators, always at least one part
Split(s, sep) ==
    LET at == {i \in 1..Len(s) : s[i] = sep}
        \* the position of the k-th separator; 0 and Len(s) + 1 bound the text
        pos(k) == IF k = 0 THEN 0
                  ELSE IF k > Cardinality(at) THEN Len(s) + 1
                  ELSE CHOOSE i \in at : Cardinality({j \in at : j < i}) = k - 1
    IN [k \in 1..(Cardinality(at) + 1) |-> SubSeq(s, pos(k - 1) + 1, pos(k) - 1)]

RECURSIVE DigitsValue(_, _)
\* the value of hex digits d (underscores skipped), continuing from acc
DigitsValue(d, acc) ==
    IF d = <<>> THEN acc
    ELSE IF d[1] = "_" THEN DigitsValue(Tail(d), acc)
    ELSE DigitsValue(Tail(d), acc * 16 + HexValue(d[1]))

\* int(text) in base 10: decimal digits only, no prefix
ParseInt10(text) ==
    LET s == Strip(text)
    IN IF s # <<>> /\ \A i \in 1..Len(s) : s[i] \in {HexLower[k] : k \in 1..10}
       THEN [ok |-> TRUE, value |-> DigitsValue(s, 0)]
       ELSE [ok |-> FALSE, value |-> 0]

\* int(text, 16): surrounding whitespace, an optional sign, an optional
\* 0x / 0X prefix, then hex digits of either case, single underscores
\* between them; anything else raises ValueError (ok = FALSE).
ParseInt16(text) ==
    LET s == Strip(text)
        signed == Len(s) >= 1 /\ s[1] \in {"+", "-"}
        u == IF signed THEN Tail(s) ELSE s
        prefixed == Len(u) >= 2 /\ u[1] = "0" /\ u[2] \in {"x", "X"}
        b0 == IF prefixed THEN SubSeq(u, 3, Len(u)) ELSE u
        b == IF prefixed /\ Len(b0) >= 1 /\ b0[1] = "_" THEN Tail(b0) ELSE b0
        wellFormed ==
            /\ Len(b) >= 1
            /\ b[1] # "_" /\ b[Len(b)] # "_"
            /\ \A i \in 1..Len(b) : b[i] = "_" \/ IsHexDigit(b[i])
            /\ \A i \in 1..(Len(b) - 1) : ~(b[i] = "_" /\ b[i + 1] = "_")
    IN IF ~wellFormed THEN [ok |-> FALSE, value |-> 0]
       ELSE [ok |-> TRUE,
             value |-> IF signed /\ s[1] = "-" THEN 0 - DigitsValue(b, 0)
                       ELSE DigitsValue(b, 0)]

(***************************************************************************)
(* The literal texts of solve_font.py's print calls.                       *)
(***************************************************************************)
\* '0x'
T_0x ==
    <<"0", "x">>
\* 'Glyph not found for '
T_GlyphNotFound ==
    <<"G", "l", "y", "p", "h", " ", "n", "o", "t", " ", "f", "o", "u", "n",
    "d", " ", "f", "o", "r", " ">>
\* 'Empty bitmap for '
T_EmptyBitmap ==
    <<"E", "m", "p", "t", "y", " ", "b", "i", "t", "m", "a", "p", " ", "f",
    "o", "r", " ">>
\* 'Error rendering '
T_ErrorRendering ==
    <<"E", "r", "r", "o", "r", " ", "r", "e", "n", "d", "e", "r", "i", "n",
    "g", " ">>
\* ': '
T_ColonSp ==
    <<":", " ">>
\* 'Num Charmaps: '
T_NumCharmaps ==
    <<"N", "u", "m", " ", "C", "h", "a", "r", "m", "a", "p", "s", ":", " ">>
\* 'Charmap '
T_Charmap ==
    <<"C", "h", "a", "r", "m", "a", "p", " ">>
\* ' ID: '
T_ID ==
    <<" ", "I", "D", ":", " ">>
\* '  -> Found PUA support in Charmap '
T_FoundPUA ==
    <<" ", " ", "-", ">", " ", "F", "o", "u", "n", "d", " ", "P", "U", "A",
    " ", "s", "u", "p", "p", "o", "r", "t", " ", "i", "n", " ", "C", "h",
    "a", "r", "m", "a", "p", " ">>
\* 'Warning: No charmap found for PUA 0xe3e8'
T_WarnNoCharmap ==
    <<"W", "a", "r", "n", "i", "n", "g", ":", " ", "N", "o", " ", "c", "h",
    "a", "r", "m", "a", "p", " ", "f", "o", "u", "n", "d", " ", "f", "o",
    "r", " ", "P", "U", "A", " ", "0", "x", "e", "3", "e", "8">>
\* 'Reference font has '
T_RefFontHas ==
    <<"R", "e", "f", "e", "r", "e", "n", "c", "e", " ", "f", "o", "n", "t",
    " ", "h", "a", "s", " ">>
\* ' faces.'
T_Faces ==
    <<" ", "f", "a", "c", "e", "s", ".">>
\* 'Selected Reference Face Index '
T_SelectedFace ==
    <<"S", "e", "l", "e", "c", "t", "e", "d", " ", "R", "e", "f", "e", "r",
    "e", "n", "c", "e", " ", "F", "a", "c", "e", " ", "I", "n", "d", "e",
    "x", " ">>
\* " (Supports '\u4e2d')"
T_Supports ==
    <<" ", "(", "S", "u", "p", "p", "o", "r", "t", "s", " ", "'", "U4E2D",
    "'", ")">>
\* 'Error: No suitable face found in reference font.'
T_ErrNoFace ==
    <<"E", "r", "r", "o", "r", ":", " ", "N", "o", " ", "s", "u", "i", "t",
    "a", "b", "l", "e", " ", "f", "a", "c", "e", " ", "f", "o", "u", "n",
    "d", " ", "i", "n", " ", "r", "e", "f", "e", "r", "e", "n", "c", "e",
    " ", "f", "o", "n", "t", ".">>
\* 'Loaded '
T_Loaded ==
    <<"L", "o", "a", "d", "e", "d", " ">>
\* ' PUA codes.'
T_PuaCodes ==
    <<" ", "P", "U", "A", " ", "c", "o", "d", "e", "s", ".">>
\* 'Pre-rendering reference characters...'
T_PreRendering ==
    <<"P", "r", "e", "-", "r", "e", "n", "d", "e", "r", "i", "n", "g", " ",
    "r", "e", "f", "e", "r", "e", "n", "c", "e", " ", "c", "h", "a", "r",
    "a", "c", "t", "e", "r", "s", ".", ".", ".">>
\* 'Generating bitmaps for '
T_GeneratingFor ==
    <<"G", "e", "n", "e", "r", "a", "t", "i", "n", "g", " ", "b", "i", "t",
    "m", "a", "p", "s", " ", "f", "o", "r", " ">>
\* ' reference characters...'
T_RefChars ==
    <<" ", "r", "e", "f", "e", "r", "e", "n", "c", "e", " ", "c", "h", "a",
    "r", "a", "c", "t", "e", "r", "s", ".", ".", ".">>
\* '  Generated '
T_GeneratedIndent ==
    <<" ", " ", "G", "e", "n", "e", "r", "a", "t", "e", "d", " ">>
\* 'Generated '
T_Generated ==
    <<"G", "e", "n", "e", "r", "a", "t", "e", "d", " ">>
\* ' reference bitmaps.'
T_RefBitmaps ==
    <<" ", "r", "e", "f", "e", "r", "e", "n", "c", "e", " ", "b", "i", "t",
    "m", "a", "p", "s", ".">>
\* 'Solving...'
T_Solving ==
    <<"S", "o", "l", "v", "i", "n", "g", ".", ".", ".">>
\* 'Failed to render PUA code '
T_FailedRender ==
    <<"F", "a", "i", "l", "e", "d", " ", "t", "o", " ", "r", "e", "n", "d",
    "e", "r", " ", "P", "U", "A", " ", "c", "o", "d", "e", " ">>
\* 'Code '
T_Code ==
    <<"C", "o", "d", "e", " ">>
\* ' -> '
T_Arrow ==
    <<" ", "-", ">", " ">>
\* ' (Error: '
T_ErrorOpen ==
    <<" ", "(", "E", "r", "r", "o", "r", ":", " ">>
\* 'Decryption Map:'
T_DecryptionMap ==
    <<"D", "e", "c", "r", "y", "p", "t", "i", "o", "n", " ", "M", "a", "p",
    ":">>
\* 'inf'
T_inf ==
    <<"i", "n", "f">>
\* 'unic'
T_CharmapName ==
    <<"u", "n", "i", "c">>
\* '3,1'
T_CharmapIds ==
    <<"3", ",", "1">>

(***************************************************************************)
(* Texts of decrypt_content.py: literals (T_, K_), lines of a mapping       *)
(* table file (L_) and chapter contents (S_).                              *)
(***************************************************************************)
\* 'Code 0x'
T_Code0x ==
    <<"C", "o", "d", "e", " ", "0", "x">>
\* 'reader'
K_reader ==
    <<"r", "e", "a", "d", "e", "r">>
\* 'chapterData'
K_chapterData ==
    <<"c", "h", "a", "p", "t", "e", "r", "D", "a", "t", "a">>
\* 'content'
K_content ==
    <<"c", "o", "n", "t", "e", "n", "t">>
\* '<p>'
T_POpen ==
    <<"<", "p", ">">>
\* '</p>'
T_PClose ==
    <<"<", "/", "p", ">">>
\* '\\"'
T_EscQuote ==
    <<"\\", "\"">>
\* '"'
T_Quote ==
    <<"\"">>
\* '\n'
T_Newline ==
    <<"\n">>
\* '0xe4c2:\u7684\n'
L_Entry ==
    <<"0", "x", "e", "4", "c", "2", ":", "U7684", "\n">>
\* '0xe4c2:\n'
L_EmptyChar ==
    <<"0", "x", "e", "4", "c", "2", ":", "\n">>
\* 'Code 0xe3e8 -> \u4e00 (Error: 0.0)\n'
L_Debug ==
    <<"C", "o", "d", "e", " ", "0", "x", "e", "3", "e", "8", " ", "-", ">",
    " ", "U4E00", " ", "(", "E", "r", "r", "o", "r", ":", " ", "0", ".", "0",
    ")", "\n">>
\* 'Decryption Map:\n'
L_Header ==
    <<"D", "e", "c", "r", "y", "p", "t", "i", "o", "n", " ", "M", "a", "p",
    ":", "\n">>
\* '0xE3E8:\u4e00\n'
L_UpperHex ==
    <<"0", "x", "E", "3", "E", "8", ":", "U4E00", "\n">>
\* ' 0xe3e8:\u4e00\n'
L_LeadingSpace ==
    <<" ", "0", "x", "e", "3", "e", "8", ":", "U4E00", "\n">>
\* '0xe3e8:\u4e00\u4e8c\n'
L_TwoChars ==
    <<"0", "x", "e", "3", "e", "8", ":", "U4E00", "U4E8C", "\n">>
\* '0xzz:\u7684\n'
L_NotHex ==
    <<"0", "x", "z", "z", ":", "U7684", "\n">>
\* ''
S_Empty ==
    <<>>
\* '\ue4c2'
S_OnePua ==
    <<"UE4C2">>
\* '\ue4c2\ue3e8a'
S_Mixed ==
    <<"UE4C2", "UE3E8", "a">>
\* '<p>\ue3e8</p>'
S_Para ==
    <<"<", "p", ">", "UE3E8", "<", "/", "p", ">">>
\* '\\ue4c2'
S_RawEscape ==
    <<"\\", "u", "e", "4", "c", "2">>

(***************************************************************************)
(* Bitmaps: numpy uint8 arrays of shape (rows, width).                     *)
(* A bitmap is a sequence of rows, each a sequence of pixels.              *)
(***************************************************************************)
Pixels == {0, 255}
BitmapsOf(maxH, maxW) ==
    UNION {[1..h -> [1..w -> Pixels]] : <<h, w>> \in (1..maxH) \X (1..maxW)}
\* image.shape
Height(img) == Len(img)
Width(img) == IF Len(img) = 0 THEN 0 ELSE Len(img[1])

\* np.zeros((h, w)); pad[:hA, :wA] = image
PadTopLeft(img, h, w) ==
    [r \in 1..h |-> [c \in 1..w |->
        IF r <= Height(img) /\ c <= Width(img) THEN img[r][c] ELSE 0]]

\* np.sum((padA.astype("float") - padB.astype("float")) ** 2)
SumSqDiff(padA, padB, h, w) ==
    SumTo([r \in 1..h |->
             SumTo([c \in 1..w |->
                      (padA[r][c] - padB[r][c]) * (padA[r][c] - padB[r][c])], w)],
          h)

\* solve_font.mse; err /= float(h * w) is the fraction sum / (h * w)
mse(A, B) ==
    LET h == Max2(Height(A), Height(B))
        w == Max2(Width(A), Width(B))
    IN [num |-> SumSqDiff(PadTopLeft(A, h, w), PadTopLeft(B, h, w), h, w),
        den |-> h * w]

(***************************************************************************)
(* solve_font.py: the fonts.                                               *)
(* What the font driver answers for one (face, character) is an input of   *)
(* the run, drawn when main first asks for it: no glyph index, a driver    *)
(* error, or a raster of rows x width pixels with its flat buffer.         *)
(***************************************************************************)
\* COMMON_CHARS: the first characters of range(0x4E00, 0x9FA6) this model
\* renders, among them the probe character chr(0x4E2D)
COMMON_CHARS == <<"U4E00", "U4E2D">>
ProbeChar == "U4E2D"
\* the codes font_map.txt may list; 0xe3e8 is the charmap probe of main
ProbePua == 58344
CodePool == {ProbePua, 58562, 65}
\* range(num_faces) of the reference container
FaceIndexes == {0, 1}

DrvIndex0 == [kind |-> "index0", rows |-> 0, width |-> 0, buffer |-> <<>>]
DrvError == [kind |-> "error", rows |-> 0, width |-> 0, buffer |-> <<>>]
DrvRaster(r, w, buf) == [kind |-> "raster", rows |-> r, width |-> w, buffer |-> buf]
DriverOutcomes ==
    {DrvIndex0, DrvError,
     DrvRaster(0, 0, <<>>), DrvRaster(1, 0, <<>>),
     DrvRaster(1, 1, <<255>>), DrvRaster(1, 1, <<0>>),
     DrvRaster(1, 2, <<255, 0>>), DrvRaster(1, 2, <<0, 255>>),
     DrvRaster(2, 1, <<255, 0>>)}

\* The face main selected answered a non-zero index for the probe character;
\* the fallback face is one that answered 0 for it.
RefOutcomes(char, fallback) ==
    IF char # ProbeChar THEN DriverOutcomes
    ELSE IF fallback THEN {DrvIndex0}
    ELSE DriverOutcomes \ {DrvIndex0}
\* Likewise the charmap main selected answered a non-zero index for 0xe3e8,
\* and with no such charmap the one left selected answers 0.
ObsOutcomes(code, cmap) ==
    IF code # ProbePua THEN DriverOutcomes
    ELSE IF cmap = "none" THEN {DrvIndex0}
    ELSE DriverOutcomes \ {DrvIndex0}

\* render_glyph's None, and a rendered buffer
None == [none |-> TRUE, bmp |-> <<>>]
Some(b) == [none |-> FALSE, bmp |-> b]

\* np.array(bitmap.buffer, dtype=np.uint8).reshape((rows, width))
Reshape(buf, rows, width) ==
    [r \in 1..rows |-> [c \in 1..width |-> buf[(r - 1) * width + c]]]

\* a raster counted as empty only when both of its dimensions are zero
IsEmptyRasterBoth(rows, width) == rows = 0 /\ width = 0

\* bitmap.rows == 0 or bitmap.width == 0
IsEmptyRaster(rows, width) == rows = 0 \/ width = 0

\* render_glyph(face, char_code): drv is the driver's answer; hexLabel is
\* hex(char_code) for an int and the character for a str, label is
\* str(char_code).  Returns the result and the lines printed.
render_glyph(drv, hexLabel, label) ==
    IF drv.kind = "error"
    THEN [bmp |-> None,
          printed |-> <<T_ErrorRendering \o hexLabel \o T_ColonSp \o <<"!">>>>]
    ELSE IF drv.kind = "index0"
    THEN [bmp |-> None, printed |-> <<T_GlyphNotFound \o hexLabel>>]
    ELSE IF IsEmptyRaster(drv.rows, drv.width)
    THEN [bmp |-> None, printed |-> <<T_EmptyBitmap \o label>>]
    ELSE IF Len(drv.buffer) # drv.rows * drv.width
    THEN [bmp |-> None,
          printed |-> <<T_ErrorRendering \o hexLabel \o T_ColonSp \o <<"!">>>>]
    ELSE [bmp |-> Some(Reshape(drv.buffer, drv.rows, drv.width)),
          printed |-> <<>>]

(***************************************************************************)
(* solve_font.py: the matcher inside main.                                 *)
(***************************************************************************)
\* a matcher in which a later candidate of equal error replaces the earlier
CloserOrEqual(error, minimum) == ~Less(minimum, error)

\* if error < min_error
Closer(error, minimum) == Less(error, minimum)

RECURSIVE MatchFrom(_, _, _, _)
\* the loop over ref_bitmaps.items(), from entry k on
MatchFrom(target, refs, k, acc) ==
    IF k > Len(refs) THEN acc
    ELSE LET error == mse(target, refs[k].val)
         IN MatchFrom(target, refs, k + 1,
                      IF Closer(error, acc.min_error)
                      THEN [best_char |-> refs[k].key, min_error |-> error]
                      ELSE acc)

\* best_char = "?"; min_error = float("inf"); for char, ref_bmp in ...
BestMatch(target, refs) ==
    MatchFrom(target, refs, 1, [best_char |-> "?", min_error |-> Inf])

\* a matcher without the cutoff
AcceptedAlways(minimum) == TRUE

MAX_ERROR == 100000000
\* if min_error < 100000000
Accepted(minimum) == Less(minimum, [num |-> MAX_ERROR, den |-> 1])

\* str(x) of a float: inf, or the integer part, a point and a run of
\* decimal digits (the token "#")
FloatStr(x) ==
    IF x.den = 0 THEN T_inf ELSE Dec(x.num \div x.den) \o <<".", "#">>

PROGRESS_EVERY == 2000

(***************************************************************************)
(* solve_font.main, one action per step.                                   *)
(***************************************************************************)
SolveStart(at) ==
    /\ sf_pc = at
    /\ selected_cmap = "none"
    /\ num_faces = 0
    /\ face_ref = -1
    /\ pua_codes = <<>>
    /\ ref_bitmaps = <<>>
    /\ count = 0
    /\ target_bmp = None
    /\ best_char = "?"
    /\ min_error = Inf
    /\ mapping = <<>>
    /\ output = <<>>
    /\ no_face = FALSE
    /\ absent_refs = {}
    /\ absent_codes = {}
    /\ matched_codes = {}
    /\ solved = {}

SolveInit == SolveStart("charmap")
\* solve_font.py is not run
SolveIdle == SolveStart("idle")

\* lines 73-90: open font.otf, pick the charmap that knows 0xe3e8
SelectCharmap ==
    /\ sf_pc = "charmap"
    /\ \E found \in BOOLEAN :
        /\ selected_cmap' = IF found THEN "cmap0" ELSE "none"
        /\ output' = output \o
              <<T_NumCharmaps \o Dec(1),
                T_Charmap \o Dec(0) \o T_ColonSp \o T_CharmapName \o T_ID
                    \o T_CharmapIds,
                IF found THEN T_FoundPUA \o Dec(0) ELSE T_WarnNoCharmap>>
    /\ sf_pc' = "faces"
    /\ UNCHANGED <<num_faces, face_ref, pua_codes, ref_bitmaps, count,
                   target_bmp, best_char, min_error, mapping, no_face,
                   absent_refs, absent_codes, matched_codes, solved>>
    /\ UNCHANGED notSolveVars

\* lines 92-104: the first face of the container that supports the probe
SelectFace ==
    /\ sf_pc = "faces"
    /\ \E hit \in FaceIndexes \cup {-1} :
        /\ num_faces' = Cardinality(FaceIndexes)
        /\ face_ref' = hit
        /\ output' = output \o
              <<T_RefFontHas \o Dec(Cardinality(FaceIndexes)) \o T_Faces>> \o
              (IF hit # -1
               THEN <<T_SelectedFace \o Dec(hit) \o T_Supports>> ELSE <<>>)
    /\ sf_pc' = "facecheck"
    /\ UNCHANGED <<selected_cmap, pua_codes, ref_bitmaps, count, target_bmp,
                   best_char, min_error, mapping, no_face, absent_refs,
                   absent_codes, matched_codes, solved>>
    /\ UNCHANGED notSolveVars

\* lines 106-110: no face supports the probe
NoFaceFallback ==
    /\ sf_pc = "facecheck"
    /\ face_ref = -1
    /\ output' = Append(output, T_ErrNoFace)
    /\ face_ref' = 0
    /\ no_face' = TRUE
    /\ sf_pc' = "fontmap"
    /\ UNCHANGED <<selected_cmap, num_faces, pua_codes, ref_bitmaps, count,
                   target_bmp, best_char, min_error, mapping, absent_refs,
                   absent_codes, matched_codes, solved>>
    /\ UNCHANGED notSolveVars

\* lines 106-110: a face was selected
FaceSelected ==
    /\ sf_pc = "facecheck"
    /\ face_ref # -1
    /\ sf_pc' = "fontmap"
    /\ UNCHANGED <<selected_cmap, num_faces, face_ref, pua_codes, ref_bitmaps,
                   count, target_bmp, best_char, min_error, mapping, output,
                   no_face, absent_refs, absent_codes, matched_codes, solved>>
    /\ UNCHANGED notSolveVars

\* lines 117-129: the codes of font_map.txt (one "Code: 0x.., Name: .." line
\* per entry of the font's cmap, so no code twice)
LoadPuaCodes ==
    /\ sf_pc = "fontmap"
    /\ \E codes \in DistinctSeqs(CodePool, MaxCodes) :
        /\ pua_codes' = codes
        /\ output' = output \o
              <<T_Loaded \o Dec(Len(codes)) \o T_PuaCodes,
                T_PreRendering,
                T_GeneratingFor \o Dec(Len(COMMON_CHARS)) \o T_RefChars>>
    /\ count' = 0
    /\ sf_pc' = "refs"
    /\ UNCHANGED <<selected_cmap, num_faces, face_ref, ref_bitmaps,
                   target_bmp, best_char, min_error, mapping, no_face,
                   absent_refs, absent_codes, matched_codes, solved>>
    /\ UNCHANGED notSolveVars

\* lines 131-137: one turn of the loop over COMMON_CHARS
RenderRef ==
    /\ sf_pc = "refs"
    /\ count < Len(COMMON_CHARS)
    /\ LET char == COMMON_CHARS[count + 1]
       IN \E drv \in RefOutcomes(char, no_face) :
            LET r == render_glyph(drv, <<char>>, <<char>>)
            IN /\ ref_bitmaps' = IF r.bmp.none THEN ref_bitmaps
                                  ELSE DictSet(ref_bitmaps, char, r.bmp.bmp)
               /\ absent_refs' =
                     IF drv.kind # "raster" \/ drv.rows = 0 \/ drv.width = 0
                     THEN absent_refs \cup {char} ELSE absent_refs
               /\ output' = output \o r.printed \o
                     (IF (count + 1) % PROGRESS_EVERY = 0
                      THEN <<T_GeneratedIndent \o Dec(count + 1) \o <<"/">>
                               \o Dec(Len(COMMON_CHARS)) \o <<".", ".", ".">>>>
                      ELSE <<>>)
    /\ count' = count + 1
    /\ UNCHANGED <<sf_pc, selected_cmap, num_faces, face_ref, pua_codes,
                   target_bmp, best_char, min_error, mapping, no_face,
                   absent_codes, matched_codes, solved>>
    /\ UNCHANGED notSolveVars

\* lines 139-145: the corpus is complete
StartSolve ==
    /\ sf_pc = "refs"
    /\ count = Len(COMMON_CHARS)
    /\ output' = output \o
          <<T_Generated \o Dec(Len(ref_bitmaps)) \o T_RefBitmaps, T_Solving>>
    /\ count' = 0
    /\ sf_pc' = "solve"
    /\ UNCHANGED <<selected_cmap, num_faces, face_ref, pua_codes, ref_bitmaps,
                   target_bmp, best_char, min_error, mapping, no_face,
                   absent_refs, absent_codes, matched_codes, solved>>
    /\ UNCHANGED notSolveVars

\* lines 146-151: the code's glyph does not render
SolveCodeAbsent ==
    /\ sf_pc = "solve"
    /\ count < Len(pua_codes)
    /\ LET code == pua_codes[count + 1]
       IN \E drv \in ObsOutcomes(code, selected_cmap) :
            LET r == render_glyph(drv, Hex(code), Dec(code))
            IN /\ r.bmp.none
               /\ target_bmp' = r.bmp
               /\ output' = output \o r.printed \o
                                <<T_FailedRender \o Hex(code)>>
               /\ absent_codes' =
                     IF drv.kind # "raster" \/ drv.rows = 0 \/ drv.width = 0
                     THEN absent_codes \cup {code} ELSE absent_codes
    /\ count' = count + 1
    /\ UNCHANGED <<sf_pc, selected_cmap, num_faces, face_ref, pua_codes,
                   ref_bitmaps, best_char, min_error, mapping, no_face,
                   absent_refs, matched_codes, solved>>
    /\ UNCHANGED notSolveVars

\* lines 146-168: the code's glyph renders and is matched against the corpus
SolveCodeMatch ==
    /\ sf_pc = "solve"
    /\ count < Len(pua_codes)
    /\ LET code == pua_codes[count + 1]
       IN \E drv \in ObsOutcomes(code, selected_cmap) :
            LET r == render_glyph(drv, Hex(code), Dec(code))
                m == BestMatch(r.bmp.bmp, ref_bitmaps)
            IN /\ ~r.bmp.none
               /\ target_bmp' = r.bmp
               /\ best_char' = m.best_char
               /\ min_error' = m.min_error
               /\ matched_codes' = matched_codes \cup {code}
               /\ output' = output \o r.printed \o
                     <<T_Code \o Hex(code) \o T_Arrow \o <<m.best_char>>
                         \o T_ErrorOpen \o FloatStr(m.min_error) \o <<")">>>>
               /\ mapping' = IF Accepted(m.min_error)
                             THEN DictSet(mapping, Hex(code), m.best_char)
                             ELSE mapping
               /\ solved' = IF Accepted(m.min_error)
                            THEN solved \cup {<<code, m.best_char>>}
                            ELSE solved
               /\ absent_codes' =
                     IF drv.kind # "raster" \/ drv.rows = 0 \/ drv.width = 0
                     THEN absent_codes \cup {code} ELSE absent_codes
    /\ count' = count + 1
    /\ UNCHANGED <<sf_pc, selected_cmap, num_faces, face_ref, pua_codes,
                   ref_bitmaps, no_face, absent_refs>>
    /\ UNCHANGED notSolveVars

\* lines 170-173: print the table
PrintMap ==
    /\ sf_pc = "solve"
    /\ count = Len(pua_codes)
    /\ output' = output \o <<T_DecryptionMap>> \o
          [i \in 1..Len(mapping) |-> mapping[i].key \o <<":">> \o <<mapping[i].val>>]
    /\ sf_pc' = "done"
    /\ UNCHANGED <<selected_cmap, num_faces, face_ref, pua_codes, ref_bitmaps,
                   count, target_bmp, best_char, min_error, mapping, no_face,
                   absent_refs, absent_codes, matched_codes, solved>>
    /\ UNCHANGED notSolveVars

SolveNext ==
    \/ SelectCharmap
    \/ SelectFace
    \/ NoFaceFallback
    \/ FaceSelected
    \/ LoadPuaCodes
    \/ RenderRef
    \/ StartSolve
    \/ SolveCodeAbsent
    \/ SolveCodeMatch
    \/ PrintMap

(***************************************************************************)
(* decrypt_content.py: the mapping-table reader.                           *)
(***************************************************************************)
\* mapping[key] = value on a dict, as a function
DictPut(m, key, value) ==
    [k \in DOMAIN m \cup {key} |-> IF k = key THEN value ELSE m[k]]

\* lines 10-20: what one line of the file does to the mapping
ReadLine(m, line) ==
    IF Contains(line, T_Code0x) THEN m
    ELSE IF Contains(line, <<":">>) /\ StartsWith(Strip(line), T_0x)
    THEN LET parts == Split(Strip(line), ":")
         IN IF Len(parts) >= 2
            THEN LET code_hex == Strip(parts[1])
                     char == Strip(parts[2])
                     parsed == ParseInt16(code_hex)
                 IN IF parsed.ok THEN DictPut(m, parsed.value, char) ELSE m
            ELSE m
    ELSE m

RECURSIVE LoadFrom(_, _, _)
LoadFrom(lines, k, m) ==
    IF k > Len(lines) THEN m ELSE LoadFrom(lines, k + 1, ReadLine(m, lines[k]))

\* lines 7-20: mapping = {}; for line in f: ...
LoadMapping(lines) == LoadFrom(lines, 1, <<>>)

(***************************************************************************)
(* decrypt_content.py: the page payload.  json.loads gives a value:        *)
(* [kind, text, items], items being the elements of an array and the       *)
(* [key, val] entries of an object.                                        *)
(***************************************************************************)
JNull == [kind |-> "null", text |-> <<>>, items |-> <<>>]
JNum == [kind |-> "number", text |-> <<>>, items |-> <<>>]
JStr(s) == [kind |-> "string", text |-> s, items |-> <<>>]
JArr(xs) == [kind |-> "array", text |-> <<>>, items |-> xs]
JObj(es) == [kind |-> "object", text |-> <<>>, items |-> es]
Entry(k, v) == [key |-> k, val |-> v]

\* key in v, for a str key: "true", "false" or the exception raised
PyIn(key, v) ==
    CASE v.kind = "object" ->
            IF \E i \in 1..Len(v.items) : v.items[i].key = key
            THEN "true" ELSE "false"
      [] v.kind = "array" ->
            IF \E i \in 1..Len(v.items) :
                  v.items[i].kind = "string" /\ v.items[i].text = key
            THEN "true" ELSE "false"
      [] v.kind = "string" -> IF Contains(v.text, key) THEN "true" ELSE "false"
      [] OTHER -> "TypeError"

\* v[key], for a str key: the exception raised ("" when none) and the value
PyGetItem(v, key) ==
    IF v.kind = "object"
    THEN IF \E i \in 1..Len(v.items) : v.items[i].key = key
         THEN [raised |-> "",
               val |-> (CHOOSE e \in {v.items[i] : i \in 1..Len(v.items)} :
                            e.key = key).val]
         ELSE [raised |-> "KeyError", val |-> JNull]
    ELSE [raised |-> "TypeError", val |-> JNull]

\* lines 46-48: 'reader' in data and 'chapterData' in data['reader'], then
\* content = data['reader']['chapterData']['content'].
\* branch: "primary" (content taken), "fallback" (condition false) or
\* "raised" (an exception leaves decrypt_content).
SelectFromState(d) ==
    LET in1 == PyIn(K_reader, d)
        reader == PyGetItem(d, K_reader)
        in2 == PyIn(K_chapterData, reader.val)
        chapter == PyGetItem(reader.val, K_chapterData)
        got == PyGetItem(chapter.val, K_content)
        fail(e) == [branch |-> "raised", raised |-> e, content |-> JNull]
    IN IF in1 = "TypeError" THEN fail("TypeError")
       ELSE IF in1 = "false"
       THEN [branch |-> "fallback", raised |-> "", content |-> JNull]
       ELSE IF reader.raised # "" THEN fail(reader.raised)
       ELSE IF in2 = "TypeError" THEN fail("TypeError")
       ELSE IF in2 = "false"
       THEN [branch |-> "fallback", raised |-> "", content |-> JNull]
       ELSE IF chapter.raised # "" THEN fail(chapter.raised)
       ELSE IF got.raised # "" THEN fail(got.raised)
       ELSE [branch |-> "primary", raised |-> "", content |-> got.val]

\* ord(char), for the characters of the model's texts
OrdOf ==
    ("UE4C2" :> 58562) @@ ("UE3E8" :> 58344) @@ ("a" :> 97) @@ ("<" :> 60)
    @@ ("p" :> 112) @@ (">" :> 62) @@ ("/" :> 47) @@ ("\\" :> 92)
    @@ ("u" :> 117) @@ ("e" :> 101) @@ ("4" :> 52) @@ ("c" :> 99)
    @@ ("2" :> 50) @@ ("\"" :> 34)

\* lines 67-70: what one character contributes
Substitute(m, char) ==
    IF OrdOf[char] \in DOMAIN m THEN m[OrdOf[char]] ELSE <<char>>

RECURSIVE DecryptFrom(_, _, _)
\* lines 64-72: the loop over content and "".join(decrypted_chars)
DecryptFrom(m, s, k) ==
    IF k > Len(s) THEN <<>>
    ELSE Substitute(m, s[k]) \o DecryptFrom(m, s, k + 1)
Decrypt(m, s) == DecryptFrom(m, s, 1)

\* for char in content: the characters iterated, or the TypeError of
\* iterating None or a number, or of ord() on an item that is not one
\* character
IterChars(v) ==
    LET units ==
            CASE v.kind = "string" -> [i \in 1..Len(v.text) |-> <<v.text[i]>>]
              [] v.kind = "array" ->
                    [i \in 1..Len(v.items) |->
                        IF v.items[i].kind = "string" THEN v.items[i].text
                        ELSE <<>>]
              [] v.kind = "object" -> [i \in 1..Len(v.items) |-> v.items[i].key]
              [] OTHER -> <<>>
    IN IF v.kind \in {"null", "number"} \/ \E i \in 1..Len(units) : Len(units[i]) # 1
       THEN [raised |-> "TypeError", chars |-> <<>>]
       ELSE [raised |-> "", chars |-> [i \in 1..Len(units) |-> units[i][1]]]

RECURSIVE Replace(_, _, _)
\* s.replace(old, new), old not empty
Replace(s, old, new) ==
    IF Len(s) < Len(old) THEN s
    ELSE IF StartsWith(s, old)
    THEN new \o Replace(SubSeq(s, Len(old) + 1, Len(s)), old, new)
    ELSE <<s[1]>> \o Replace(Tail(s), old, new)

\* line 75
CleanUp(text) ==
    Replace(Replace(Replace(text, T_POpen, T_Newline), T_PClose, <<>>),
            T_EscQuote, T_Quote)

(***************************************************************************)
(* decrypt_content.decrypt_content, one action per step.  Its inputs are   *)
(* the lines of decryption_map_final.txt and reader_page.html, the page:   *)
(*   state    whether window.__INITIAL_STATE__=...; is found ("missing"),  *)
(*            and whether what it holds parses as JSON ("invalid", "json") *)
(*   data     the value it parses to                                       *)
(*   match    the first "content":"..." of the page: found or not, its raw *)
(*            text, and whether that text parses as a JSON string literal  *)
(*            (to decoded)                                                 *)
(***************************************************************************)
NoMatch == [found |-> FALSE, literal_ok |-> FALSE, raw |-> <<>>, decoded |-> <<>>]
NoPage == [state |-> "missing", data |-> JNull, match |-> NoMatch]

LinePool ==
    {L_Entry, L_EmptyChar, L_Debug, L_Header, L_UpperHex, L_LeadingSpace,
     L_TwoChars, L_NotHex}
TableFiles == UNION {[1..k -> LinePool] : k \in 0..MaxLines}

ContentPool == {S_Empty, S_OnePua, S_Mixed, S_Para}
WithReader(v) == JObj(<<Entry(K_reader, v)>>)
WithChapter(v) == WithReader(JObj(<<Entry(K_chapterData, v)>>))
StateValues ==
    {WithChapter(JObj(<<Entry(K_content, JStr(s))>>)) : s \in ContentPool}
    \cup {WithChapter(JObj(<<Entry(K_content, JNull)>>)),
          WithChapter(JObj(<<>>)), WithChapter(JNull),
          WithReader(JObj(<<>>)), WithReader(JNull),
          WithReader(JStr(K_chapterData)),
          JObj(<<>>), JNum, JNull, JArr(<<>>), JArr(<<JStr(K_reader)>>),
          JStr(K_reader)}
Matches ==
    {NoMatch,
     [found |-> TRUE, literal_ok |-> TRUE, raw |-> S_RawEscape,
      decoded |-> S_OnePua],
     [found |-> TRUE, literal_ok |-> FALSE, raw |-> S_RawEscape,
      decoded |-> <<>>]}
Pages ==
    {[state |-> "json", data |-> d, match |-> m] :
        d \in StateValues, m \in Matches}
    \cup {[state |-> st, data |-> JNull, match |-> m] :
            st \in {"missing", "invalid"}, m \in Matches}

DecIdle ==
    /\ dc_pc = "idle"
    /\ map_file = <<>>
    /\ html = NoPage
    /\ dc_mapping = <<>>
    /\ data_defined = FALSE
    /\ data = JNull
    /\ content = JStr(<<>>)
    /\ decrypted_text = <<>>
    /\ written = <<>>
    /\ raised = ""

DecInit ==
    /\ dc_pc = "load"
    /\ map_file \in TableFiles
    /\ html \in Pages
    /\ dc_mapping = <<>>
    /\ data_defined = FALSE
    /\ data = JNull
    /\ content = JStr(<<>>)
    /\ decrypted_text = <<>>
    /\ written = <<>>
    /\ raised = ""

\* lines 7-20
LoadTable ==
    /\ dc_pc = "load"
    /\ dc_mapping' = LoadMapping(map_file)
    /\ dc_pc' = "html"
    /\ UNCHANGED <<map_file, html, data_defined, data, content,
                   decrypted_text, written, raised>>
    /\ UNCHANGED notDecVars

\* lines 22-31: no state blob in the page: print and return
StateMissing ==
    /\ dc_pc = "html"
    /\ html.state = "missing"
    /\ dc_pc' = "returned"
    /\ UNCHANGED <<map_file, html, dc_mapping, data_defined, data, content,
                   decrypted_text, written, raised>>
    /\ UNCHANGED notDecVars

\* lines 28-44: the blob is found; json.loads binds data, or fails and the
\* JSONDecodeError is passed over
ParseState ==
    /\ dc_pc = "html"
    /\ html.state # "missing"
    /\ data_defined' = (html.state = "json")
    /\ data' = IF html.state = "json" THEN html.data ELSE JNull
    /\ dc_pc' = "select"
    /\ UNCHANGED <<map_file, html, dc_mapping, content, decrypted_text,
                   written, raised>>
    /\ UNCHANGED notDecVars

\* what lines 46-61 do: the branch taken and the content it binds
SelectContentResult(defined, value, match) ==
    LET fromState == SelectFromState(value)
        fallback ==
            IF match.found
            THEN [branch |-> "fallback", raised |-> "",
                  content |-> JStr(IF match.literal_ok THEN match.decoded
                                   ELSE match.raw)]
            ELSE [branch |-> "returned", raised |-> "", content |-> JStr(<<>>)]
    IN IF ~defined THEN fallback
       ELSE IF fromState.branch = "fallback" THEN fallback
       ELSE fromState

\* lines 46-61
SelectContent ==
    /\ dc_pc = "select"
    /\ LET r == SelectContentResult(data_defined, data, html.match)
       IN /\ content' = r.content
          /\ raised' = r.raised
          /\ dc_pc' = CASE r.branch = "raised" -> "raised"
                        [] r.branch = "returned" -> "returned"
                        [] OTHER -> "decrypt"
    /\ UNCHANGED <<map_file, html, dc_mapping, data_defined, data,
                   decrypted_text, written>>
    /\ UNCHANGED notDecVars

\* lines 63-72
DecryptLoop ==
    /\ dc_pc = "decrypt"
    /\ LET it == IterChars(content)
       IN /\ raised' = it.raised
          /\ decrypted_text' = IF it.raised = "" THEN Decrypt(dc_mapping, it.chars)
                               ELSE decrypted_text
          /\ dc_pc' = IF it.raised = "" THEN "cleanup" ELSE "raised"
    /\ UNCHANGED <<map_file, html, dc_mapping, data_defined, data, content,
                   written>>
    /\ UNCHANGED notDecVars

\* lines 74-80
WriteResult ==
    /\ dc_pc = "cleanup"
    /\ decrypted_text' = CleanUp(decrypted_text)
    /\ written' = CleanUp(decrypted_text)
    /\ dc_pc' = "done"
    /\ UNCHANGED <<map_file, html, dc_mapping, data_defined, data, content,
                   raised>>
    /\ UNCHANGED notDecVars

DecNext ==
    \/ LoadTable
    \/ StateMissing
    \/ ParseState
    \/ SelectContent
    \/ DecryptLoop
    \/ WriteResult

\* The printed output of solve_font.py saved as decryption_map_final.txt,
\* each printed line ended by its newline.
SaveOutput ==
    /\ sf_pc = "done"
    /\ dc_pc = "idle"
    /\ map_file' = [i \in 1..Len(output) |-> output[i] \o T_Newline]
    /\ dc_pc' = "load"
    /\ UNCHANGED <<html, dc_mapping, data_defined, data, content,
                   decrypted_text, written, raised>>
    /\ UNCHANGED notDecVars

(***************************************************************************)
(* scripts/auto_importer.py: main.  A book is its book_name; what the      *)
(* server, the rank API, the downloader and the upload answer are inputs   *)
(* drawn when main asks.                                                   *)
(***************************************************************************)
BookNames == {"A", "B"}
\* what get_hot_list can return: a list of books, empty on any failure
RankPages == UNION {[1..k -> BookNames] : k \in 0..MaxPage}
\* --offset values
Offsets == {0, 20}
page_size == 20

\* an importer that never consults existing_projects
NeverOnServer(name, existing) == FALSE

\* if book['book_name'] in existing_projects
AlreadyOnServer(name, existing) == name \in existing

\* if success and txt_path
ShouldUpload(success, txt_path) == success /\ txt_path # "None"

ImpIdle ==
    /\ im_pc = "idle"
    /\ existing_projects = {}
    /\ fetched_projects = {}
    /\ current_offset = 0
    /\ max_books = 0
    /\ processed_count = 0
    /\ books = <<>>
    /\ book_i = 0
    /\ upload_log = <<>>
    /\ skipped = {}

\* lines 186-190: the arguments are parsed
ImpInit ==
    /\ im_pc = "start"
    /\ existing_projects = {}
    /\ fetched_projects = {}
    /\ current_offset \in Offsets
    /\ max_books \in 0..MaxCount
    /\ processed_count = 0
    /\ books = <<>>
    /\ book_i = 0
    /\ upload_log = <<>>
    /\ skipped = {}

\* lines 195-204, get_existing_projects: the names the server lists, or the
\* empty set when the request fails or does not answer 200
GetExistingProjects ==
    /\ im_pc = "start"
    /\ \E names \in SUBSET BookNames :
        /\ existing_projects' = names
        /\ fetched_projects' = names
    /\ im_pc' = "while"
    /\ UNCHANGED <<current_offset, max_books, processed_count, books, book_i,
                   upload_log, skipped>>
    /\ UNCHANGED notImpVars

\* lines 206-207: while processed_count < max_books: books = get_hot_list()
FetchPage ==
    /\ im_pc = "while"
    /\ processed_count < max_books
    /\ \E page \in RankPages : books' = page
    /\ book_i' = 0
    /\ im_pc' = "fetched"
    /\ UNCHANGED <<existing_projects, fetched_projects, current_offset,
                   max_books, processed_count, upload_log, skipped>>
    /\ UNCHANGED notImpVars

\* line 206 false, then line 242
LoopDone ==
    /\ im_pc = "while"
    /\ ~(processed_count < max_books)
    /\ im_pc' = "done"
    /\ UNCHANGED <<existing_projects, fetched_projects, current_offset,
                   max_books, processed_count, books, book_i, upload_log,
                   skipped>>
    /\ UNCHANGED notImpVars

\* lines 208-210: if not books: break, then line 242
EmptyPage ==
    /\ im_pc = "fetched"
    /\ books = <<>>
    /\ im_pc' = "done"
    /\ UNCHANGED <<existing_projects, fetched_projects, current_offset,
                   max_books, processed_count, books, book_i, upload_log,
                   skipped>>
    /\ UNCHANGED notImpVars

\* line 212
PageFetched ==
    /\ im_pc = "fetched"
    /\ books # <<>>
    /\ im_pc' = "for"
    /\ UNCHANGED <<existing_projects, fetched_projects, current_offset,
                   max_books, processed_count, books, book_i, upload_log,
                   skipped>>
    /\ UNCHANGED notImpVars

\* lines 214-216 and 240: the for loop ends, by exhaustion or by the break
\* on processed_count >= max_books
PageDone ==
    /\ im_pc = "for"
    /\ book_i = Len(books) \/ processed_count >= max_books
    /\ current_offset' = current_offset + page_size
    /\ im_pc' = "while"
    /\ UNCHANGED <<existing_projects, fetched_projects, max_books,
                   processed_count, books, book_i, upload_log, skipped>>
    /\ UNCHANGED notImpVars

\* lines 218-221
SkipExisting ==
    /\ im_pc = "for"
    /\ book_i < Len(books)
    /\ processed_count < max_books
    /\ AlreadyOnServer(books[book_i + 1], existing_projects)
    /\ skipped' = skipped \cup {books[book_i + 1]}
    /\ processed_count' = processed_count + 1
    /\ book_i' = book_i + 1
    /\ UNCHANGED <<im_pc, existing_projects, fetched_projects, current_offset,
                   max_books, books, upload_log>>
    /\ UNCHANGED notImpVars

\* lines 223-238: download_cover, download_novel_txt, then upload_to_server
\* or not, the count and the sleep
ProcessBook ==
    /\ im_pc = "for"
    /\ book_i < Len(books)
    /\ processed_count < max_books
    /\ ~AlreadyOnServer(books[book_i + 1], existing_projects)
    /\ \E success \in BOOLEAN, txt_path \in {"None", "path"}, uploaded \in BOOLEAN :
        /\ success \/ txt_path = "None"
        /\ ShouldUpload(success, txt_path) \/ ~uploaded
        /\ upload_log' =
              IF ShouldUpload(success, txt_path)
              THEN Append(upload_log, [name |-> books[book_i + 1], ok |-> uploaded])
              ELSE upload_log
        /\ existing_projects' =
              IF ShouldUpload(success, txt_path) /\ uploaded
              THEN existing_projects \cup {books[book_i + 1]}
              ELSE existing_projects
    /\ processed_count' = processed_count + 1
    /\ book_i' = book_i + 1
    /\ UNCHANGED <<im_pc, fetched_projects, current_offset, max_books, books,
                   skipped>>
    /\ UNCHANGED notImpVars

\* line 111: os.chmod on the downloader is outside every try; when the
\* downloader file is not there the error leaves main
DownloaderMissing ==
    /\ im_pc = "for"
    /\ book_i < Len(books)
    /\ processed_count < max_books
    /\ ~AlreadyOnServer(books[book_i + 1], existing_projects)
    /\ im_pc' = "crashed"
    /\ UNCHANGED <<existing_projects, fetched_projects, current_offset,
                   max_books, processed_count, books, book_i, upload_log,
                   skipped>>
    /\ UNCHANGED notImpVars

ImpNext ==
    \/ GetExistingProjects
    \/ FetchPage
    \/ LoopDone
    \/ EmptyPage
    \/ PageFetched
    \/ PageDone
    \/ SkipExisting
    \/ ProcessBook
    \/ DownloaderMissing

(***************************************************************************)
(* The metric on its own: mse applied to every pair of bounded bitmaps.    *)
(***************************************************************************)
MseIdle ==
    /\ imageA = <<>>
    /\ imageB = <<>>
    /\ err = NoFloat

MseInit ==
    /\ imageA \in BitmapsOf(MseMaxH, MseMaxW)
    /\ imageB \in BitmapsOf(MseMaxH, MseMaxW)
    /\ err = NoFloat
    /\ SolveIdle
    /\ DecIdle
    /\ ImpIdle

CallMse ==
    /\ err = NoFloat
    /\ imageA # <<>>
    /\ err' = mse(imageA, imageB)
    /\ UNCHANGED <<imageA, imageB>>
    /\ UNCHANGED notMseVars

MseNext == CallMse

SpecMse == MseInit /\ [][MseNext]_vars

(***************************************************************************)
(* The mapping builder.                                                    *)
(***************************************************************************)
Init ==
    /\ SolveInit
    /\ MseIdle
    /\ DecIdle
    /\ ImpIdle

\* solve_font.py, then its output read by decrypt_content's table reader
Next ==
    \/ SolveNext
    \/ SaveOutput
    \/ LoadTable

Spec == Init /\ [][Next]_vars

(***************************************************************************)
(* decrypt_content.py on any table file and page.                          *)
(***************************************************************************)
InitDecrypt ==
    /\ DecInit
    /\ MseIdle
    /\ SolveIdle
    /\ ImpIdle

SpecDecrypt == InitDecrypt /\ [][DecNext]_vars

(***************************************************************************)
(* auto_importer.py.  Every call main makes returns: the requests and the  *)
(* downloader run under timeouts, the sleep is bounded; so main keeps      *)
(* taking steps while it has one to take.                                  *)
(***************************************************************************)
InitImport ==
    /\ ImpInit
    /\ MseIdle
    /\ SolveIdle
    /\ DecIdle

SpecImport == InitImport /\ [][ImpNext]_vars /\ WF_vars(ImpNext)

(***************************************************************************)
(* The claims.                                                             *)
(***************************************************************************)
\* ---- the substitution of decrypt_content

\* C1: the text built by the decrypt loop has as many characters as the
\* content, and at every position holds T[ord(s[i])] when that code is a key
\* of the table and s[i] otherwise; with an empty table it is the content.
C1_SubstitutionIsScalarMap ==
    (dc_pc = "cleanup" /\ content.kind = "string") =>
        /\ Len(decrypted_text) = Len(content.text)
        /\ \A i \in 1..Len(content.text) :
              <<decrypted_text[i]>> =
                  IF OrdOf[content.text[i]] \in DOMAIN dc_mapping
                  THEN dc_mapping[OrdOf[content.text[i]]]
                  ELSE <<content.text[i]>>
        /\ (DOMAIN dc_mapping = {} => decrypted_text = content.text)

\* ---- the cutoff of solve_font.main

CutoffValue == [num |-> MAX_ERROR, den |-> 1]
\* the code main has just handled, once it has rendered and matched it
JustMatched ==
    /\ sf_pc \in {"solve", "done"}
    /\ count >= 1
    /\ ~target_bmp.none
LastCode == pua_codes[count]
SolvedCodes == {p[1] : p \in solved}

\* C2: a code whose minimum error over the corpus is at or above the cutoff,
\* or that met an empty corpus, is not in the mapping, and no "?" is ever
\* recorded as a character.
C2_NoEntryAtOrAboveCutoff ==
    /\ \A i \in 1..Len(mapping) : mapping[i].val # "?"
    /\ \A p \in solved : p[2] # "?"
    /\ (/\ JustMatched
        /\ \A k \in 1..Len(ref_bitmaps) :
              ~Less(mse(target_bmp.bmp, ref_bitmaps[k].val), CutoffValue))
       => /\ Hex(LastCode) \notin DictKeys(mapping)
          /\ LastCode \notin SolvedCodes

\* a code was matched against an empty corpus
C2_Witness ==
    /\ JustMatched
    /\ ref_bitmaps = <<>>
    /\ sf_pc = "done"

\* ---- the table reader of decrypt_content

IsLowerHex(t) == \E i \in 1..16 : HexLower[i] = t
FirstColon(line) ==
    CHOOSE i \in 1..Len(line) : line[i] = ":" /\ \A j \in 1..(i - 1) : line[j] # ":"
\* the line matches ^0x[0-9a-f]+:
MatchesEntryShape(line) ==
    /\ \E i \in 1..Len(line) : line[i] = ":"
    /\ StartsWith(line, T_0x)
    /\ FirstColon(line) >= 4
    /\ \A i \in 3..(FirstColon(line) - 1) : IsLowerHex(line[i])
EntryCode(line) == DigitsValue(SubSeq(line, 3, FirstColon(line) - 1), 0)
\* the character portion of an entry line, without the line end
EntryChars(line) ==
    LET rest == SubSeq(line, FirstColon(line) + 1, Len(line))
    IN IF rest # <<>> /\ rest[Len(rest)] = "\n"
       THEN SubSeq(rest, 1, Len(rest) - 1) ELSE rest

\* C3: the reader takes entries only from lines that match ^0x[0-9a-f]+:
\* and an empty character portion is no mapping: every key of the table
\* comes from a matching line with a character.
C3_ReaderSkipsAndIgnoresEmpty ==
    dc_pc \notin {"idle", "load"} =>
        \A code \in DOMAIN dc_mapping :
            \E i \in 1..Len(map_file) :
                /\ MatchesEntryShape(map_file[i])
                /\ EntryCode(map_file[i]) = code
                /\ EntryChars(map_file[i]) # <<>>

\* ---- absence in solve_font.main

\* C4: a code whose glyph is absent (no glyph index, a zero-size raster, a
\* driver error) is never matched and never a key of the mapping; a
\* reference character whose glyph is absent is never a key of ref_bitmaps.
C4_AbsencePropagation ==
    /\ \A c \in absent_codes :
          /\ c \notin matched_codes
          /\ c \notin SolvedCodes
          /\ Hex(c) \notin DictKeys(mapping)
    /\ \A ch \in absent_refs : ch \notin DictKeys(ref_bitmaps)

\* an absent code, an absent reference character, and a code that was mapped
C4_Witness ==
    /\ sf_pc = "done"
    /\ absent_codes # {}
    /\ absent_refs # {}
    /\ mapping # <<>>

\* ---- the metric

PadCentered(img, h, w) ==
    LET top == (h - Height(img)) \div 2
        left == (w - Width(img)) \div 2
    IN [r \in 1..h |-> [c \in 1..w |->
           IF /\ r > top /\ r <= top + Height(img)
              /\ c > left /\ c <= left + Width(img)
           THEN img[r - top][c - left] ELSE 0]]

\* The metric of the design: both bitmaps centred in the max-by-max canvas,
\* offsets floor(deficit / 2), zero fill, squared differences over the area.
CenteredMetric(A, B) ==
    LET h == Max2(Height(A), Height(B))
        w == Max2(Width(A), Width(B))
    IN [num |-> SumSqDiff(PadCentered(A, h, w), PadCentered(B, h, w), h, w),
        den |-> h * w]

\* C5: the distance computed by mse for any two bitmaps equals the centred
\* reference metric, also for bitmaps of different width or height.
C5_MseIsCenteredMetric ==
    err # NoFloat => SameValue(err, CenteredMetric(imageA, imageB))

\* ---- the reference face

\* C6: when no face of the reference font supports the probe character,
\* main halts: it builds no corpus, matches no code, emits no entry.
C6_NoFaceHalts ==
    no_face =>
        /\ sf_pc \notin {"refs", "solve", "done"}
        /\ ref_bitmaps = <<>>
        /\ matched_codes = {}
        /\ mapping = <<>>

\* ---- round trip of glyphs

Zero == [num |-> 0, den |-> 1]
\* the code just handled renders to exactly the bitmap of corpus entry k
RendersAs(k) == JustMatched /\ target_bmp.bmp = ref_bitmaps[k].val
\* the first corpus entry at distance 0 from the bitmap b
FirstAtZero(b) ==
    CHOOSE j \in 1..Len(ref_bitmaps) :
        /\ SameValue(mse(b, ref_bitmaps[j].val), Zero)
        /\ \A i \in 1..(j - 1) : ~SameValue(mse(b, ref_bitmaps[i].val), Zero)

\* C7 as stated: a code whose bitmap is identical to the bitmap of a
\* reference character is mapped to exactly that character, with error 0,
\* whatever the corpus (two characters may share a bitmap).
C7_RoundTripExact ==
    \A k \in 1..Len(ref_bitmaps) :
        RendersAs(k) =>
            /\ SameValue(min_error, Zero)
            /\ <<LastCode, ref_bitmaps[k].key>> \in solved
            /\ DictGet(mapping, Hex(LastCode)) = ref_bitmaps[k].key

\* C7 amended: such a code is mapped with error 0 to the first reference
\* character, in corpus insertion order, whose bitmap is at distance 0 from
\* the code's bitmap: its own character when no earlier one is.
C7_RoundTripFirstIdentical ==
    \A k \in 1..Len(ref_bitmaps) :
        RendersAs(k) =>
            LET j == FirstAtZero(target_bmp.bmp)
            IN /\ SameValue(min_error, Zero)
               /\ j <= k
               /\ best_char = ref_bitmaps[j].key
               /\ {p \in solved : p[1] = LastCode} =
                      {<<LastCode, ref_bitmaps[j].key>>}
               /\ DictGet(mapping, Hex(LastCode)) = ref_bitmaps[j].key

\* two codes recovered, the last one as the second character of a corpus of
\* two different bitmaps
C7_Witness ==
    /\ sf_pc = "done"
    /\ Len(ref_bitmaps) = 2
    /\ ref_bitmaps[1].val # ref_bitmaps[2].val
    /\ RendersAs(2)
    /\ Cardinality(solved) = 2
    /\ <<LastCode, ref_bitmaps[2].key>> \in solved

\* ---- malformed pages

\* C8: whatever the page holds, no exception leaves decrypt_content.
C8_NeverRaises == dc_pc # "raised"

\* ---- the table file round trip

\* C9: the table read back from the complete printed output of
\* solve_font.main has exactly the mapped codes as keys and, for each, the
\* recovered character as value.
C9_TableRoundTrip ==
    dc_pc = "html" =>
        {<<k, dc_mapping[k]>> : k \in DOMAIN dc_mapping} =
            {<<p[1], <<p[2]>>>> : p \in solved}

\* two entries read back from an output that also holds the charmap warning
\* and a render failure
C9_Witness ==
    /\ dc_pc = "html"
    /\ Cardinality(solved) = 2
    /\ selected_cmap = "none"
    /\ Cardinality(DOMAIN dc_mapping) = 2

\* ---- the import loop

UploadedOk == {upload_log[i].name : i \in {j \in 1..Len(upload_log) : upload_log[j].ok}}

\* no upload follows a successful upload of the same name
NoSecondUpload ==
    \A i, j \in 1..Len(upload_log) :
        (i < j /\ upload_log[i].ok) => upload_log[i].name # upload_log[j].name

\* an upload is attempted only for a name outside existing_projects
UploadOnlyIfNew ==
    upload_log' # upload_log =>
        upload_log'[Len(upload_log')].name \notin existing_projects

====
